---- MODULE Spec2Model ----
(***************************************************************************)
(* bevy_winit::winit_windows: the WinitWindows resource (three hash maps   *)
(* tying window entities to winit windows), create_window / get_window /   *)
(* get_window_entity / remove_window, the two video-mode heuristics, the   *)
(* cursor-grab fallback and monitor selection.                             *)
(*                                                                         *)
(* Spec       WinitWindows under create_window and remove_window calls.    *)
(* SpecGrab   attempt_grab against every answer of the platform.           *)
(* SpecVideo  get_best_videomode / get_fitting_videomode on every bounded  *)
(*            list of video modes.                                         *)
(***************************************************************************)
EXTENDS Integers, Sequences, FiniteSets, TLC

\* ---------------------------------------------------------------- bounds
NumEntities == 2
NumWindowIds == 2
MaxModes == 3

Entities == 1..NumEntities
WindowIds == 1..NumWindowIds

\* ------------------------------------------------------- Option<T>, Result
None == <<>>
Some(x) == <<x>>
unwrap(o) == o[1]
Option(S) == {None} \cup {Some(x) : x \in S}

\* ExternalError has three variants; "ok" stands for Ok(()).
ExternalErrors == {"NotSupported", "Ignored", "Os"}
Outcomes == {"ok"} \cup ExternalErrors

\* ----------------------------------------------------------------- HashMap
\* A map is a function whose DOMAIN is the set of keys present.
EmptyMap == <<>>
insert(map, k, v) == [x \in (DOMAIN map) \cup {k} |-> IF x = k THEN v ELSE map[x]]
remove(map, k) == [x \in (DOMAIN map) \ {k} |-> map[x]]
get(map, k) == IF k \in DOMAIN map THEN Some(map[k]) ELSE None

VARIABLES
    windows,          \* WinitWindows.windows:         WindowId -> window
    entity_to_winit,  \* WinitWindows.entity_to_winit: Entity   -> WindowId
    winit_to_entity,  \* WinitWindows.winit_to_entity: WindowId -> Entity
    returned,         \* history: entity -> the window its last create_window
                      \* returned, cleared by a remove_window call for it
    ever,             \* history: entities ever passed to create_window
    last,             \* the last call: its arguments, what it handed to the
                      \* platform, and what it returned
    pc,               \* "idle", or "create" while create_window stands at
                      \* line 123 with the attributes built so far
    grab,             \* SpecGrab: the last attempt_grab call
    video             \* SpecVideo: the monitor, the request and the answer

vars == <<windows, entity_to_winit, winit_to_entity, returned, ever, last, pc, grab, video>>

\* ------------------------------------------------------------- video modes
Widths == {1, 2, 3}
Heights == {1, 2}
RefreshRates == {60, 75}
VideoModes == [width : Widths, height : Heights, refresh_rate_millihertz : RefreshRates]
ModeLists == UNION {[1..n -> VideoModes] : n \in 0..MaxModes}

\* Ord::cmp on integers.
cmp(a, b) == IF a < b THEN "Less" ELSE IF a > b THEN "Greater" ELSE "Equal"

\* slice::sort_by is a stable sort: element i goes after every element that
\* compares Less than it and after every earlier element that compares Equal.
\* ord[a, b] is the closure's answer for the pair (a, b).
sort_rank(s, i, ord) ==
    Cardinality({j \in 1..Len(s) :
        \/ ord[s[j], s[i]] = "Less"
        \/ ord[s[j], s[i]] = "Equal" /\ j < i}) + 1
sort_by(s, ord) ==
    [k \in 1..Len(s) |-> s[CHOOSE i \in 1..Len(s) : sort_rank(s, i, ord) = k]]
elements(s) == {s[i] : i \in 1..Len(s)}

\* slice::first
first(s) == IF Len(s) = 0 THEN None ELSE Some(s[1])

abs_diff(a, b) == IF a > b THEN a - b ELSE b - a

\* A variant that prefers the lowest refresh rate.
fitting_order_lowest_refresh(a, b, width, height) ==
    LET by_width == cmp(abs_diff(a.width, width), abs_diff(b.width, width))
        by_height == cmp(abs_diff(a.height, height), abs_diff(b.height, height))
    IN  IF by_width = "Equal"
        THEN IF by_height = "Equal"
             THEN cmp(a.refresh_rate_millihertz, b.refresh_rate_millihertz)
             ELSE by_height
        ELSE by_width
\* The comparator of get_fitting_videomode, for a requested width and height.
fitting_order(a, b, width, height) ==
    LET by_width == cmp(abs_diff(a.width, width), abs_diff(b.width, width))
        by_height == cmp(abs_diff(a.height, height), abs_diff(b.height, height))
    IN  IF by_width = "Equal"
        THEN IF by_height = "Equal"
             THEN cmp(b.refresh_rate_millihertz, a.refresh_rate_millihertz)
             ELSE by_height
        ELSE by_width

\* None stands for the panic of unwrap() on an empty list of modes.
get_fitting_videomode(monitor, width, height) ==
    LET all == elements(monitor.video_modes)
        ord == [a \in all, b \in all |-> fitting_order(a, b, width, height)]
        modes == sort_by(monitor.video_modes, ord)
    IN  first(modes)

\* A variant that does not compare heights.
best_order_ignoring_height(a, b) ==
    IF cmp(b.width, a.width) = "Equal"
    THEN cmp(b.refresh_rate_millihertz, a.refresh_rate_millihertz)
    ELSE cmp(b.width, a.width)
\* The comparator of get_best_videomode.
best_order(a, b) ==
    IF cmp(b.width, a.width) = "Equal"
    THEN IF cmp(b.height, a.height) = "Equal"
         THEN cmp(b.refresh_rate_millihertz, a.refresh_rate_millihertz)
         ELSE cmp(b.height, a.height)
    ELSE cmp(b.width, a.width)

\* None stands for the panic of unwrap() on an empty list of modes.
get_best_videomode(monitor) ==
    LET all == elements(monitor.video_modes)
        ord == [a \in all, b \in all |-> best_order(a, b)]
        modes == sort_by(monitor.video_modes, ord)
    IN  first(modes)

\* ------------------------------------------------------------ attempt_grab
GrabModes == {"None", "Confined", "Locked"}
\* What set_cursor_grab answers to each strategy on this platform.
Platforms == [GrabModes -> Outcomes]

\* A variant with a single request.
attempt_grab_no_fallback(grab_mode, set_cursor_grab) ==
    [requests |-> <<grab_mode>>, result |-> set_cursor_grab[grab_mode]]
\* Result::or_else: the fallback runs only on Err, and its result replaces
\* the first one.
attempt_grab(grab_mode, set_cursor_grab) ==
    LET fallback == CASE grab_mode = "Confined" -> "Locked"
                      [] grab_mode = "Locked" -> "Confined"
                      [] OTHER -> "None"
    IN  IF grab_mode = "None" \/ set_cursor_grab[grab_mode] = "ok"
        THEN [requests |-> <<grab_mode>>, result |-> set_cursor_grab[grab_mode]]
        ELSE [requests |-> <<grab_mode, fallback>>, result |-> set_cursor_grab[fallback]]

\* ----------------------------------------------------------- select_monitor
\* The monitor of the machine with video modes, and one that reports none.
Monitor1 == [name |-> "m1", video_modes |-> <<
    [width |-> 1, height |-> 2, refresh_rate_millihertz |-> 75],
    [width |-> 3, height |-> 1, refresh_rate_millihertz |-> 60],
    [width |-> 3, height |-> 1, refresh_rate_millihertz |-> 75]>>]
Monitor2 == [name |-> "m2", video_modes |-> <<>>]
Monitors == {Monitor1, Monitor2}

MonitorSelections == {"Current", "Primary", "Index", "Entity"}
\* `monitors` is WinitMonitors seen through the two lookups made for the
\* selection at hand: what nth(n) and find_entity(entity) answer.

select_monitor(monitors, primary_monitor, current_monitor, monitor_selection) ==
    CASE monitor_selection = "Current" -> current_monitor
      [] monitor_selection = "Primary" -> primary_monitor
      [] monitor_selection = "Index" -> monitors.nth
      [] monitor_selection = "Entity" -> monitors.find_entity

\* ------------------------------------------------------------ WinitWindows
\* WindowMode: Windowed carries no monitor selection.
WindowModes ==
    {[kind |-> "Windowed", monitor_selection |-> None]}
    \cup [kind : {"BorderlessFullscreen", "Fullscreen", "SizedFullscreen"},
          monitor_selection : {Some(m) : m \in MonitorSelections}]
ExclusiveModes == {"Fullscreen", "SizedFullscreen"}

UnableToGetMonitor == "Unable to get monitor."
UnwrapNone == "called Option::unwrap on a None value"
UnwrapErr == "called Result::unwrap on an Err value"

\* WindowAttributes: the two attributes followed here.
default_attributes == [visible |-> TRUE, fullscreen |-> None]
with_visible(attributes, visible) == [attributes EXCEPT !.visible = visible]
with_fullscreen(attributes, fullscreen) == [attributes EXCEPT !.fullscreen = fullscreen]
Borderless(monitor) == [kind |-> "Borderless", monitor |-> monitor, videomode |-> None]
Exclusive(videomode) == [kind |-> "Exclusive", monitor |-> None, videomode |-> Some(videomode)]

\* Lines 70-80 of create_window: no current monitor is passed.
maybe_selected_monitor(window, monitors, primary_monitor) ==
    IF window.mode.kind = "Windowed"
    THEN None
    ELSE select_monitor(monitors, primary_monitor, None, unwrap(window.mode.monitor_selection))

\* A variant that falls back to borderless fullscreen instead of expecting a
\* monitor.
fullscreen_attributes_borderless_fallback(attributes, window, selected) ==
    LET kind == window.mode.kind
        videomode == IF kind = "Fullscreen"
                     THEN get_best_videomode(unwrap(selected))
                     ELSE get_fitting_videomode(unwrap(selected), window.width, window.height)
    IN  CASE kind = "Windowed" -> [panic |-> "", attributes |-> attributes]
          [] kind = "BorderlessFullscreen" \/ selected = None ->
                [panic |-> "",
                 attributes |-> with_fullscreen(attributes, Some(Borderless(selected)))]
          [] OTHER ->
                IF videomode = None
                THEN [panic |-> UnwrapNone, attributes |-> attributes]
                ELSE [panic |-> "",
                      attributes |-> with_fullscreen(attributes, Some(Exclusive(unwrap(videomode))))]
\* Lines 82-121 of create_window: the fullscreen attribute, or the panic.
fullscreen_attributes(attributes, window, selected) ==
    LET kind == window.mode.kind
        videomode == IF kind = "Fullscreen"
                     THEN get_best_videomode(unwrap(selected))
                     ELSE get_fitting_videomode(unwrap(selected), window.width, window.height)
    IN  CASE kind = "Windowed" -> [panic |-> "", attributes |-> attributes]
          [] kind = "BorderlessFullscreen" ->
                [panic |-> "",
                 attributes |-> with_fullscreen(attributes, Some(Borderless(selected)))]
          [] OTHER ->
                IF selected = None
                THEN [panic |-> UnableToGetMonitor, attributes |-> attributes]
                ELSE IF videomode = None
                THEN [panic |-> UnwrapNone, attributes |-> attributes]
                ELSE [panic |-> "",
                      attributes |-> with_fullscreen(attributes, Some(Exclusive(unwrap(videomode))))]

\* Lines 58-121 of create_window: the attributes start invisible and get the
\* fullscreen mode of the selected monitor, or the call panics.
placed_attributes(window, monitors, primary_monitor) ==
    LET invisible == with_visible(default_attributes, FALSE)
        selected == maybe_selected_monitor(window, monitors, primary_monitor)
        placed == fullscreen_attributes(invisible, window, selected)
    IN  [panic |-> placed.panic,
         monitor |-> selected,
         attributes |-> IF placed.panic = "" THEN Some(placed.attributes) ELSE None]

\* Lines 123-252 of create_window: the rest of the attribute chain, which
\* ends with the window's own visibility.
window_attributes(attributes, window) ==
    with_visible(attributes, window.visible)

get_window(entity) ==
    IF get(entity_to_winit, entity) = None
    THEN None
    ELSE get(windows, unwrap(get(entity_to_winit, entity)))

get_window_entity(winit_id) == get(winit_to_entity, winit_id)

\* Lines 289-305 of create_window: the cursor calls; a failure is logged (the
\* grab's by attempt_grab) and nothing else.
cursor_setup(cursor_options, platform) ==
    LET grab_result == IF cursor_options.grab_mode # "None"
                       THEN attempt_grab(cursor_options.grab_mode, platform.set_cursor_grab).result
                       ELSE "skipped"
        hittest_result == IF ~cursor_options.hit_test
                          THEN platform.set_cursor_hittest
                          ELSE "skipped"
    IN  [grab_failed |-> grab_result \in ExternalErrors,
         hittest_failed |-> hittest_result \in ExternalErrors]

\* A variant that leaves winit_to_entity out of the inserts.
register_window_forgets_reverse(entity, winit_window, cursor) ==
    [entity_to_winit |-> insert(entity_to_winit, entity, winit_window.id),
     winit_to_entity |-> winit_to_entity,
     windows |-> insert(windows, winit_window.id, winit_window),
     ret |-> Some(winit_window)]
\* A variant that gives up the inserts when the grab failed.
register_window_unless_grab_fails(entity, winit_window, cursor) ==
    IF cursor.grab_failed
    THEN [entity_to_winit |-> entity_to_winit,
          winit_to_entity |-> winit_to_entity,
          windows |-> windows,
          ret |-> None]
    ELSE [entity_to_winit |-> insert(entity_to_winit, entity, winit_window.id),
          winit_to_entity |-> insert(winit_to_entity, winit_window.id, entity),
          windows |-> insert(windows, winit_window.id, winit_window),
          ret |-> Some(winit_window)]
\* Lines 307-314 of create_window: the three inserts and the return, which
\* do not look at `cursor`, the outcome of the cursor calls before them.
register_window(entity, winit_window, cursor) ==
    [entity_to_winit |-> insert(entity_to_winit, entity, winit_window.id),
     winit_to_entity |-> insert(winit_to_entity, winit_window.id, entity),
     windows |-> insert(windows, winit_window.id, winit_window),
     ret |-> Some(winit_window)]

\* A variant that leaves winit_to_entity out of the removals.
remove_window_keeps_reverse(entity) ==
    LET winit_id == get(entity_to_winit, entity)
    IN  IF winit_id = None
        THEN [entity_to_winit |-> entity_to_winit,
              winit_to_entity |-> winit_to_entity,
              windows |-> windows,
              ret |-> None]
        ELSE [entity_to_winit |-> remove(entity_to_winit, entity),
              winit_to_entity |-> winit_to_entity,
              windows |-> remove(windows, unwrap(winit_id)),
              ret |-> get(windows, unwrap(winit_id))]
\* A variant that finds the window id through winit_to_entity.
remove_window_by_reverse_lookup(entity) ==
    LET ids == {i \in DOMAIN winit_to_entity : winit_to_entity[i] = entity}
        winit_id == CHOOSE i \in ids : TRUE
    IN  IF ids = {}
        THEN [entity_to_winit |-> entity_to_winit,
              winit_to_entity |-> winit_to_entity,
              windows |-> windows,
              ret |-> None]
        ELSE [entity_to_winit |-> remove(entity_to_winit, entity),
              winit_to_entity |-> remove(winit_to_entity, winit_id),
              windows |-> remove(windows, winit_id),
              ret |-> get(windows, winit_id)]
remove_window(entity) ==
    LET winit_id == get(entity_to_winit, entity)
    IN  IF winit_id = None
        THEN [entity_to_winit |-> entity_to_winit,
              winit_to_entity |-> winit_to_entity,
              windows |-> windows,
              ret |-> None]
        ELSE [entity_to_winit |-> remove(entity_to_winit, entity),
              winit_to_entity |-> remove(winit_to_entity, unwrap(winit_id)),
              windows |-> remove(windows, unwrap(winit_id)),
              ret |-> get(windows, unwrap(winit_id))]

\* Lines 278-287 of create_window: the native window (the unwrap of the
\* event loop's answer) and its accessibility adapter, which is registered
\* under `entity` while the window has the visibility it was created with.
\* None stands for the panic of unwrap() on Err.
native_window(entity, attributes, event_loop) ==
    IF event_loop.create_window = None
    THEN None
    ELSE Some([window |-> [id |-> unwrap(event_loop.create_window), entity |-> entity],
               a11y_visible |-> attributes.visible])

\* ------------------------------------------------------------------ inputs
\* Window ids the platform may give a new window: those of no live window.
FreshIds == WindowIds \ DOMAIN windows
RequestSizes == {<<2, 1>>, <<4, 3>>}

\* Every call of create_window, as its window mode and what lines 58-121 make
\* of it for some requested size, some primary monitor and some answers of
\* WinitMonitors::nth and WinitMonitors::find_entity to the selection.
PlacedCalls ==
    {[mode |-> mode,
      placed |-> placed_attributes([mode |-> mode, width |-> size[1], height |-> size[2]],
                                   monitors, primary_monitor)] :
        mode \in WindowModes, size \in RequestSizes,
        primary_monitor \in Option(Monitors),
        monitors \in [nth : Option(Monitors), find_entity : Option(Monitors)]}

\* Every outcome of the cursor calls of create_window: over the cursor
\* options of the window and over what the platform answers to
\* set_cursor_grab, per strategy, and to set_cursor_hittest.
CursorOutcomes ==
    {cursor_setup(cursor_options, platform) :
        cursor_options \in [grab_mode : GrabModes, hit_test : BOOLEAN],
        platform \in [set_cursor_grab : Platforms, set_cursor_hittest : Outcomes]}

NoCall ==
    [op |-> "none", entity |-> None, mode |-> None, monitor |-> None,
     panic |-> "", attributes |-> None, winit_window |-> None,
     a11y_visible |-> None, ret |-> None,
     grab_failed |-> FALSE, hittest_failed |-> FALSE]
NoGrab == [grab_mode |-> "None", set_cursor_grab |-> None, requests |-> <<>>, result |-> "none"]

\* ------------------------------------------------------------------ actions
Init ==
    /\ windows = EmptyMap
    /\ entity_to_winit = EmptyMap
    /\ winit_to_entity = EmptyMap
    /\ returned = [e \in Entities |-> None]
    /\ ever = {}
    /\ last = NoCall
    /\ pc = "idle"
    /\ grab = NoGrab
    /\ video = [op |-> "none", video_modes |-> <<>>, width |-> 0, height |-> 0, ret |-> None]

\* create_window up to line 121: it panics, or holds the attributes built so
\* far.
CreateWindow ==
    /\ pc = "idle"
    /\ \E entity \in Entities, call \in PlacedCalls :
        /\ last' = [NoCall EXCEPT !.op = "create_window",
                                  !.entity = Some(entity),
                                  !.mode = Some(call.mode),
                                  !.monitor = call.placed.monitor,
                                  !.panic = call.placed.panic,
                                  !.attributes = call.placed.attributes]
        /\ pc' = IF call.placed.panic = "" THEN "create" ELSE "idle"
        /\ ever' = ever \cup {entity}
    /\ UNCHANGED <<windows, entity_to_winit, winit_to_entity, returned, grab, video>>

\* create_window from line 123 to its return: the last attributes, the
\* native window, the cursor calls and the inserts. The arguments and the
\* attributes of the call are forgotten when it returns.
CreateWindowReturn ==
    /\ pc = "create"
    /\ \E visible \in BOOLEAN, created \in Option(FreshIds) :
        LET entity == unwrap(last.entity)
            attributes == window_attributes(unwrap(last.attributes), [visible |-> visible])
            made == native_window(entity, attributes, [create_window |-> created])
            winit_window == unwrap(made).window
        IN  IF made = None
            THEN /\ last' = [NoCall EXCEPT !.op = "create_window",
                                           !.entity = last.entity,
                                           !.panic = UnwrapErr]
                 /\ UNCHANGED <<windows, entity_to_winit, winit_to_entity, returned>>
            ELSE \E cursor \in CursorOutcomes :
                  LET done == register_window(entity, winit_window, cursor)
                  IN  /\ entity_to_winit' = done.entity_to_winit
                      /\ winit_to_entity' = done.winit_to_entity
                      /\ windows' = done.windows
                      /\ returned' = [returned EXCEPT ![entity] = done.ret]
                      /\ last' = [NoCall EXCEPT !.op = "create_window",
                                                !.entity = last.entity,
                                                !.winit_window = Some(winit_window),
                                                !.a11y_visible =
                                                    Some(unwrap(made).a11y_visible),
                                                !.ret = done.ret,
                                                !.grab_failed = cursor.grab_failed,
                                                !.hittest_failed = cursor.hittest_failed]
    /\ pc' = "idle"
    /\ UNCHANGED <<ever, grab, video>>

RemoveWindow ==
    /\ pc = "idle"
    /\ \E entity \in Entities :
        LET done == remove_window(entity)
        IN  /\ entity_to_winit' = done.entity_to_winit
            /\ winit_to_entity' = done.winit_to_entity
            /\ windows' = done.windows
            /\ returned' = [returned EXCEPT ![entity] = None]
            /\ last' = [NoCall EXCEPT !.op = "remove_window",
                                      !.entity = Some(entity),
                                      !.ret = done.ret]
    /\ UNCHANGED <<ever, pc, grab, video>>

Next == CreateWindow \/ CreateWindowReturn \/ RemoveWindow

Spec == Init /\ [][Next]_vars

\* attempt_grab on a window, against every platform.
AttemptGrab ==
    /\ \E grab_mode \in GrabModes, set_cursor_grab \in Platforms :
        LET done == attempt_grab(grab_mode, set_cursor_grab)
        IN  grab' = [grab_mode |-> grab_mode, set_cursor_grab |-> Some(set_cursor_grab),
                     requests |-> done.requests, result |-> done.result]
    /\ UNCHANGED <<windows, entity_to_winit, winit_to_entity, returned, ever, last, pc, video>>

NextGrab == AttemptGrab

SpecGrab == Init /\ [][NextGrab]_vars

\* The video-mode heuristics on every monitor of up to MaxModes modes.
InitVideo ==
    /\ windows = EmptyMap
    /\ entity_to_winit = EmptyMap
    /\ winit_to_entity = EmptyMap
    /\ returned = [e \in Entities |-> None]
    /\ ever = {}
    /\ last = NoCall
    /\ pc = "idle"
    /\ grab = NoGrab
    /\ \E video_modes \in ModeLists, size \in RequestSizes :
        video = [op |-> "none", video_modes |-> video_modes,
                 width |-> size[1], height |-> size[2], ret |-> None]

GetBestVideomode ==
    /\ video' = [video EXCEPT !.op = "get_best_videomode",
                              !.ret = get_best_videomode([video_modes |-> video.video_modes])]
    /\ UNCHANGED <<windows, entity_to_winit, winit_to_entity, returned, ever, last, pc, grab>>

GetFittingVideomode ==
    /\ video' = [video EXCEPT !.op = "get_fitting_videomode",
                              !.ret = get_fitting_videomode([video_modes |-> video.video_modes],
                                                            video.width, video.height)]
    /\ UNCHANGED <<windows, entity_to_winit, winit_to_entity, returned, ever, last, pc, grab>>

NextVideo == GetBestVideomode \/ GetFittingVideomode

SpecVideo == InitVideo /\ [][NextVideo]_vars

\* ------------------------------------------------------------------ claims
Maps == <<windows, entity_to_winit, winit_to_entity>>
Registered(entity, winit_window) ==
    /\ get(entity_to_winit, entity) = Some(winit_window.id)
    /\ get(winit_to_entity, winit_window.id) = Some(entity)
    /\ get(windows, winit_window.id) = Some(winit_window)

\* C1: after any sequence of create_window and remove_window calls, the same
\* entity allowed more than once, entity_to_winit[e] = i if and only if
\* winit_to_entity[i] = e.
C1_Bijection ==
    \A e \in Entities, i \in WindowIds :
        (get(entity_to_winit, e) = Some(i)) <=> (get(winit_to_entity, i) = Some(e))

\* C2: from the return of create_window(entity) with window w of id i until
\* remove_window(entity) is called, get_window(entity) is w and
\* get_window_entity(i) is entity, whatever is called for other entities; an
\* entity never passed to create_window has no window.
C2_LookupsStable ==
    \A e \in Entities :
        /\ returned[e] # None =>
            /\ get_window(e) = returned[e]
            /\ get_window_entity(unwrap(returned[e]).id) = Some(e)
        /\ e \notin ever => get_window(e) = None
\* A window returned by create_window is still registered after another
\* entity's window was created and removed.
C2_Witness ==
    \E e \in Entities :
        /\ returned[e] # None
        /\ last.op = "remove_window"
        /\ last.entity # Some(e)
        /\ last.ret # None

\* C3: remove_window(entity), for a registered entity whose window id is i,
\* returns that entity's window and leaves get_window(entity) None,
\* get_window_entity(i) None and windows without i.
C3_RemoveUnregisters ==
    [][\A e \in Entities, i \in WindowIds :
         (/\ last'.op = "remove_window"
          /\ last'.entity = Some(e)
          /\ get(entity_to_winit, e) = Some(i))
         => /\ last'.ret # None
            /\ last'.ret = get(windows, i)
            /\ last'.ret = returned[e]
            /\ get(entity_to_winit', e) = None
            /\ get(winit_to_entity', i) = None
            /\ i \notin DOMAIN windows']_vars
\* A window was removed while another window stayed registered.
C3_Witness ==
    /\ last.op = "remove_window"
    /\ last.ret # None
    /\ DOMAIN entity_to_winit # {}

\* C4: attempt_grab requests the asked strategy first and the other one only
\* if the first failed (None: one request, no fallback); it returns what its
\* last request returned, so Ok iff that one succeeded, and on a double
\* failure the error of the fallback.
C4_GrabFallbackOrder ==
    grab.result # "none" =>
        LET mode == grab.grab_mode
            answer == unwrap(grab.set_cursor_grab)
            other == IF mode = "Confined" THEN "Locked" ELSE "Confined"
            n == Len(grab.requests)
        IN  /\ grab.requests[1] = mode
            /\ mode = "None" => n = 1
            /\ mode # "None" =>
                /\ n = (IF answer[mode] = "ok" THEN 1 ELSE 2)
                /\ n = 2 => grab.requests[2] = other
            /\ grab.result = answer[grab.requests[n]]
            /\ (grab.result = "ok") <=> (answer[grab.requests[n]] = "ok")
\* Both strategies failed, with different errors, and the fallback's is returned.
C4_Witness ==
    /\ Len(grab.requests) = 2
    /\ grab.grab_mode = "Locked"
    /\ unwrap(grab.set_cursor_grab)["Locked"] = "NotSupported"
    /\ unwrap(grab.set_cursor_grab)["Confined"] = "Os"
    /\ grab.result = "Os"

\* The lexicographic order (width, height, refresh rate): a is above b.
Above(a, b) ==
    \/ a.width > b.width
    \/ a.width = b.width /\ a.height > b.height
    \/ a.width = b.width /\ a.height = b.height
       /\ a.refresh_rate_millihertz > b.refresh_rate_millihertz

\* C5: on a non-empty list of modes get_best_videomode returns one of them
\* that no other mode is above in the order (width, height, refresh rate).
C5_BestIsMaximal ==
    (video.op = "get_best_videomode" /\ video.video_modes # <<>>) =>
        /\ video.ret # None
        /\ unwrap(video.ret) \in elements(video.video_modes)
        /\ \A m \in elements(video.video_modes) : ~Above(m, unwrap(video.ret))
\* The best mode is the last of three, and beats one of equal width by height.
C5_Witness ==
    /\ video.op = "get_best_videomode"
    /\ Len(video.video_modes) = 3
    /\ unwrap(video.ret) = video.video_modes[3]
    /\ unwrap(video.ret) # video.video_modes[1]
    /\ video.video_modes[2].width = unwrap(video.ret).width
    /\ video.video_modes[2].height < unwrap(video.ret).height
    /\ video.video_modes[2].refresh_rate_millihertz > unwrap(video.ret).refresh_rate_millihertz

\* C6: on a non-empty list of modes get_fitting_videomode returns one of them
\* that is nearest in width, then nearest in height, then highest in refresh
\* rate; an exact match of width and height is returned when there is one.
C6_FittingIsNearest ==
    (video.op = "get_fitting_videomode" /\ video.video_modes # <<>>) =>
        /\ video.ret # None
        /\ unwrap(video.ret) \in elements(video.video_modes)
        /\ LET r == unwrap(video.ret)
               dw(m) == abs_diff(m.width, video.width)
               dh(m) == abs_diff(m.height, video.height)
           IN  /\ \A m \in elements(video.video_modes) :
                    /\ dw(r) <= dw(m)
                    /\ dw(m) = dw(r) => dh(r) <= dh(m)
                    /\ (dw(m) = dw(r) /\ dh(m) = dh(r)) =>
                            r.refresh_rate_millihertz >= m.refresh_rate_millihertz
               /\ (\E m \in elements(video.video_modes) : dw(m) = 0 /\ dh(m) = 0)
                    => (dw(r) = 0 /\ dh(r) = 0)
\* An exact match is found behind a mode as near in width and behind the same
\* size at a lower refresh rate.
C6_Witness ==
    /\ video.op = "get_fitting_videomode"
    /\ Len(video.video_modes) = 3
    /\ unwrap(video.ret) = video.video_modes[3]
    /\ unwrap(video.ret).width = video.width
    /\ unwrap(video.ret).height = video.height
    /\ video.video_modes[1].width # video.width
    /\ video.video_modes[2].width = video.width
    /\ video.video_modes[2].height = video.height
    /\ video.video_modes[2] # video.video_modes[3]

\* C7: every native window create_window makes is created invisible,
\* whatever window.visible is, so it is invisible when its accessibility
\* adapter is initialised.
C7_CreatedInvisible ==
    (last.op = "create_window" /\ last.a11y_visible # None) =>
        unwrap(last.a11y_visible) = FALSE

\* C8: create_window in mode Fullscreen or SizedFullscreen panics with
\* "Unable to get monitor." whenever no monitor is selected (always for
\* Current), before a native window is made or a map is changed.
C8_PanicWithoutMonitor ==
    [][(/\ last'.op = "create_window"
        /\ last'.mode # None
        /\ unwrap(last'.mode).kind \in ExclusiveModes
        /\ \/ last'.monitor = None
           \/ unwrap(last'.mode).monitor_selection = Some("Current"))
       => /\ last'.panic = UnableToGetMonitor
          /\ pc' = "idle"
          /\ last'.attributes = None
          /\ last'.winit_window = None
          /\ UNCHANGED Maps]_vars
\* The panic for MonitorSelection::Current, with windows registered.
C8_Witness ==
    /\ last.op = "create_window"
    /\ last.mode = Some([kind |-> "SizedFullscreen", monitor_selection |-> Some("Current")])
    /\ last.panic = UnableToGetMonitor
    /\ DOMAIN windows # {}

\* C9: a failed cursor grab or a failed set_cursor_hittest does not stop
\* create_window: the new window is in all three maps and is returned, as
\* when the calls succeed.
C9_CursorFailuresIgnored ==
    (last.op = "create_window" /\ last.winit_window # None) =>
        /\ pc = "idle"
        /\ last.panic = ""
        /\ last.ret = last.winit_window
        /\ Registered(unwrap(last.entity), unwrap(last.winit_window))
\* Both the grab and the hit test failed, and the window is registered.
C9_Witness ==
    /\ last.op = "create_window"
    /\ last.grab_failed
    /\ last.hittest_failed
    /\ last.ret # None
    /\ Registered(unwrap(last.entity), unwrap(last.ret))

\* C10: remove_window(entity) for an entity with no entry in entity_to_winit
\* returns None and changes no map; so the second of two calls in a row
\* returns None.
C10_RemoveUnknownIsNoop ==
    [][\A e \in Entities :
         (/\ last'.op = "remove_window"
          /\ last'.entity = Some(e))
         => /\ get(entity_to_winit, e) = None => (last'.ret = None /\ UNCHANGED Maps)
            /\ (last.op = "remove_window" /\ last.entity = Some(e)) => last'.ret = None]_vars
\* The second removal of an entity that still has a stale window in windows.
C10_Witness ==
    /\ last.op = "remove_window"
    /\ last.ret = None
    /\ unwrap(last.entity) \in ever
    /\ \E i \in DOMAIN winit_to_entity : winit_to_entity[i] = unwrap(last.entity)

====
